---- MODULE Spec2Model ----
(***************************************************************************)
(* Model of src/events/mod.rs of quick-xml: the event tokens BytesStart,   *)
(* BytesDecl and BytesEnd over a copy-on-write byte buffer (Cow<[u8]>).    *)
(*                                                                         *)
(* Bytes are natural numbers 0..255; a byte string is a sequence of them.  *)
(* Memory is a table of buffers: the caller's source buffers, which        *)
(* Borrowed tokens point into, and the Vecs that Owned tokens own.         *)
(***************************************************************************)
EXTENDS Integers, Sequences, FiniteSets, TLC

VARIABLES mem, toks, hist, last

vars == <<mem, toks, hist, last>>

(***************************************************************************)
(* Byte literals of the source.                                            *)
(***************************************************************************)
\* b':'
Colon == 58
\* b' '
Space == 32
\* b'"'
Quote == 34
\* b'='
EqSign == 61

\* b"=\""
EqQuote == <<61, 34>>
\* b"xml version=\""
XmlVersionOpen == <<120, 109, 108, 32, 118, 101, 114, 115, 105, 111, 110, 61, 34>>
\* b"\" encoding=\""
EncodingOpen == <<34, 32, 101, 110, 99, 111, 100, 105, 110, 103, 61, 34>>
\* b"\" standalone=\""
StandaloneOpen == <<34, 32, 115, 116, 97, 110, 100, 97, 108, 111, 110, 101, 61, 34>>
\* b"version"
KeyVersion == <<118, 101, 114, 115, 105, 111, 110>>
\* b"encoding"
KeyEncoding == <<101, 110, 99, 111, 100, 105, 110, 103>>
\* b"standalone"
KeyStandalone == <<115, 116, 97, 110, 100, 97, 108, 111, 110, 101>>

(***************************************************************************)
(* Slices.                                                                 *)
(***************************************************************************)
\* &s[..n]: defined only for n <= len
SliceTo(s, n) == SubSeq(s, 1, n)

\* &s[i + 1..] for the 0-based index i of the source: the bytes strictly
\* after 1-based position p
SliceAfter(s, p) == SubSeq(s, p + 1, Len(s))

Max(a, b) == IF a >= b THEN a ELSE b

(***************************************************************************)
(* Results.  One record shape for every value an accessor returns.         *)
(***************************************************************************)
NoErr == [kind |-> "none", pos |-> 0, some |-> FALSE, key |-> <<>>]

\* Error::XmlDeclWithoutVersion(Some(found)) / (None)
XmlDeclWithoutVersion(some, key) ==
    [kind |-> "XmlDeclWithoutVersion", pos |-> 0, some |-> some, key |-> key]

\* Error::Utf8(..)
Utf8Error == [kind |-> "Utf8", pos |-> 0, some |-> FALSE, key |-> <<>>]

NoRes == [tag |-> "-", val |-> <<>>, err |-> NoErr]
Ok(v) == [tag |-> "Ok", val |-> v, err |-> NoErr]
Err(e) == [tag |-> "Err", val |-> <<>>, err |-> e]
None == [tag |-> "None", val |-> <<>>, err |-> NoErr]
SomeOk(v) == [tag |-> "Some(Ok)", val |-> v, err |-> NoErr]
SomeErr(e) == [tag |-> "Some(Err)", val |-> <<>>, err |-> e]
Panic == [tag |-> "panic", val |-> <<>>, err |-> NoErr]

(***************************************************************************)
(* std::str::from_utf8: whether a byte string is well-formed UTF-8.        *)
(***************************************************************************)
IsCont(b) == b >= 128 /\ b <= 191

RECURSIVE Utf8From(_, _)
Utf8From(s, i) ==
    IF i > Len(s) THEN TRUE
    ELSE LET b == s[i]
             c(k) == IF i + k <= Len(s) THEN s[i + k] ELSE 0
         IN  CASE b < 128 -> Utf8From(s, i + 1)
               [] b >= 194 /\ b <= 223 -> IsCont(c(1)) /\ Utf8From(s, i + 2)
               [] b = 224 -> c(1) >= 160 /\ c(1) <= 191 /\ IsCont(c(2))
                             /\ Utf8From(s, i + 3)
               [] (b >= 225 /\ b <= 236) \/ b = 238 \/ b = 239 ->
                             IsCont(c(1)) /\ IsCont(c(2)) /\ Utf8From(s, i + 3)
               [] b = 237 -> c(1) >= 128 /\ c(1) <= 159 /\ IsCont(c(2))
                             /\ Utf8From(s, i + 3)
               [] b = 240 -> c(1) >= 144 /\ c(1) <= 191 /\ IsCont(c(2))
                             /\ IsCont(c(3)) /\ Utf8From(s, i + 4)
               [] b >= 241 /\ b <= 243 -> IsCont(c(1)) /\ IsCont(c(2))
                             /\ IsCont(c(3)) /\ Utf8From(s, i + 4)
               [] b = 244 -> c(1) >= 128 /\ c(1) <= 143 /\ IsCont(c(2))
                             /\ IsCont(c(3)) /\ Utf8From(s, i + 4)
               [] OTHER -> FALSE

FromUtf8Ok(s) == Utf8From(s, 1)

(***************************************************************************)
(* Memory and Cow<'a, [u8]>.                                               *)
(* mem[b] = [live, bytes]; a Cow is [cow |-> "Borrowed" | "Owned", ptr].   *)
(* A Borrowed Cow points at a buffer of the caller, an Owned one at the    *)
(* Vec it owns.                                                            *)
(***************************************************************************)
FreeBuf == [live |-> FALSE, bytes |-> <<>>]

\* the allocator: the lowest free buffer
Alloc(m) ==
    CHOOSE b \in DOMAIN m : ~m[b].live /\ \A c \in DOMAIN m : ~m[c].live => b <= c

\* <Cow as Deref>::deref
CowBytes(m, c) == m[c.ptr].bytes

\* <[u8]>::to_owned: a new Vec holding a copy of the bytes
ToOwned(m, c) ==
    LET b == Alloc(m)
    IN  [mem |-> [m EXCEPT ![b] = [live |-> TRUE, bytes |-> m[c.ptr].bytes]],
         buf |-> [cow |-> "Owned", ptr |-> b],
         allocs |-> 1]

\* a buggy to_mut that hands out the borrowed buffer itself
CowToMutInPlace(m, c) == [mem |-> m, buf |-> [cow |-> "Owned", ptr |-> c.ptr], allocs |-> 0]

\* a buggy to_mut that starts from an empty Vec instead of a copy
CowToMutEmpty(m, c) ==
    IF c.cow = "Owned" THEN [mem |-> m, buf |-> c, allocs |-> 0]
    ELSE LET b == Alloc(m)
         IN  [mem |-> [m EXCEPT ![b] = [live |-> TRUE, bytes |-> <<>>]],
              buf |-> [cow |-> "Owned", ptr |-> b],
              allocs |-> 1]

\* Cow::to_mut: the owned Vec, made by copying on the first mutation
CowToMut(m, c) ==
    IF c.cow = "Owned" THEN [mem |-> m, buf |-> c, allocs |-> 0]
    ELSE ToOwned(m, c)

\* a buggy into_owned that copies whatever the state
CowIntoOwnedAlwaysCopy(m, c) ==
    LET r == ToOwned(m, c)
    IN  [r EXCEPT !.mem = IF c.cow = "Owned" THEN [@ EXCEPT ![c.ptr] = FreeBuf] ELSE @]

\* Cow::into_owned: Borrowed is copied, Owned is moved out as it is
CowIntoOwned(m, c) ==
    IF c.cow = "Owned" THEN [mem |-> m, buf |-> c, allocs |-> 0]
    ELSE ToOwned(m, c)

(***************************************************************************)
(* BytesStart, BytesEnd.  A token is [kind, buf, name_len];                *)
(* kind is "Start", "Decl" (a BytesDecl wrapping a BytesStart), "End"      *)
(* (name_len unused) or "None" (no token in the slot).                     *)
(***************************************************************************)
NoTok == [kind |-> "None", buf |-> [cow |-> "Borrowed", ptr |-> 0], name_len |-> 0]

\* BytesStart::borrowed(content, name_len)
BytesStartBorrowed(s, n) ==
    [kind |-> "Start", buf |-> [cow |-> "Borrowed", ptr |-> s], name_len |-> n]

\* BytesStart::owned(content, name_len), content being the Vec at b
BytesStartOwned(b, n) ==
    [kind |-> "Start", buf |-> [cow |-> "Owned", ptr |-> b], name_len |-> n]

\* BytesEnd::borrowed(name)
BytesEndBorrowed(s) ==
    [kind |-> "End", buf |-> [cow |-> "Borrowed", ptr |-> s], name_len |-> 0]

\* BytesEnd::owned(name), name being the Vec at b
BytesEndOwned(b) ==
    [kind |-> "End", buf |-> [cow |-> "Owned", ptr |-> b], name_len |-> 0]

\* Deref for BytesStart / BytesDecl / BytesEnd
TokBytes(m, tok) == CowBytes(m, tok.buf)

\* BytesStart::into_owned
BytesStartIntoOwned(m, tok) ==
    LET r == CowIntoOwned(m, tok.buf)
    IN  [mem |-> r.mem,
         tok |-> [kind |-> tok.kind, buf |-> r.buf, name_len |-> tok.name_len],
         allocs |-> r.allocs]

\* BytesStart::name: &self.buf[..self.name_len] panics past the end
BytesStartName(m, tok) ==
    IF tok.name_len <= Len(TokBytes(m, tok))
    THEN Ok(SliceTo(TokBytes(m, tok), tok.name_len))
    ELSE Panic

\* BytesEnd::name
BytesEndName(m, tok) == Ok(TokBytes(m, tok))

\* memchr::memrchr, the last occurrence
MemrchrLast(b, s) ==
    IF \E i \in 1..Len(s) : s[i] = b
    THEN CHOOSE i \in 1..Len(s) : s[i] = b /\ \A j \in (i + 1)..Len(s) : s[j] # b
    ELSE 0

\* memchr::memchr(b, s): the position (1-based) of the first b in s, 0 for None
Memchr(b, s) ==
    IF \E i \in 1..Len(s) : s[i] = b
    THEN CHOOSE i \in 1..Len(s) : s[i] = b /\ \A j \in 1..(i - 1) : s[j] # b
    ELSE 0

\* BytesStart::local_name
BytesStartLocalName(m, tok) ==
    LET name == BytesStartName(m, tok)
    IN  IF name.tag = "panic" THEN Panic
        ELSE LET i == Memchr(Colon, name.val)
             IN  IF i = 0 THEN name ELSE Ok(SliceAfter(name.val, i))

\* self.name().iter().position(|b| *b == b':'), scanning from 1-based i
RECURSIVE Position(_, _, _)
Position(b, s, i) ==
    IF i > Len(s) THEN 0
    ELSE IF s[i] = b THEN i
    ELSE Position(b, s, i + 1)

\* BytesEnd::local_name
BytesEndLocalName(m, tok) ==
    LET name == BytesEndName(m, tok).val
        i == Position(Colon, name, 1)
    IN  IF i # 0 THEN Ok(SliceAfter(name, i)) ELSE Ok(name)

\* a push_attribute that escapes '"' in the value as &quot;
PushBytesEscaped(bytes, a) ==
    LET esc[i \in 0..Len(a.value)] ==
            IF i = 0 THEN <<>>
            ELSE esc[i - 1] \o (IF a.value[i] = Quote THEN <<38, 113, 117, 111, 116, 59>>
                                ELSE <<a.value[i]>>)
    IN  bytes \o <<Space>> \o a.key \o EqQuote \o esc[Len(a.value)] \o <<Quote>>

\* the five appends of push_attribute, on the Vec's bytes
PushBytes(bytes, a) ==
    LET b1 == Append(bytes, Space)
        b2 == b1 \o a.key
        b3 == b2 \o EqQuote
        b4 == b3 \o a.value
    IN  Append(b4, Quote)

\* BytesStart::push_attribute, a = [key, value]
BytesStartPushAttribute(m, tok, a) ==
    LET r == CowToMut(m, tok.buf)
        b == r.buf.ptr
    IN  [mem |-> [r.mem EXCEPT ![b].bytes = PushBytes(@, a)],
         tok |-> [kind |-> tok.kind, buf |-> r.buf, name_len |-> tok.name_len],
         allocs |-> r.allocs]

\* an extend_attributes that pushes in reverse iteration order
RECURSIVE ExtendReversed(_, _, _)
ExtendReversed(m, tok, as) ==
    IF as = <<>> THEN [mem |-> m, tok |-> tok, allocs |-> 0]
    ELSE LET r == BytesStartPushAttribute(m, tok, as[Len(as)])
             rest == ExtendReversed(r.mem, r.tok, SubSeq(as, 1, Len(as) - 1))
         IN  [rest EXCEPT !.allocs = @ + r.allocs]

\* BytesStart::extend_attributes: push_attribute for each item, in order
RECURSIVE BytesStartExtendAttributes(_, _, _)
BytesStartExtendAttributes(m, tok, as) ==
    IF as = <<>> THEN [mem |-> m, tok |-> tok, allocs |-> 0]
    ELSE LET r == BytesStartPushAttribute(m, tok, Head(as))
             rest == BytesStartExtendAttributes(r.mem, r.tok, Tail(as))
         IN  [rest EXCEPT !.allocs = @ + r.allocs]

\* BytesStart::with_attributes: extend_attributes on self, self returned
BytesStartWithAttributes(m, tok, as) == BytesStartExtendAttributes(m, tok, as)

(***************************************************************************)
(* The attribute scan (events/attributes.rs, Attributes in strict mode):   *)
(* the key/value pairs of bytes [name_len, end) in document order, values  *)
(* without their quotes; a malformed attribute is an error item, and the   *)
(* last one.                                                               *)
(***************************************************************************)
OkItem(k, v) == [ok |-> TRUE, key |-> k, value |-> v, err |-> NoErr]

ErrItem(kind, pos) ==
    [ok |-> FALSE, key |-> <<>>, value |-> <<>>,
     err |-> [kind |-> kind, pos |-> pos, some |-> FALSE, key |-> <<>>]]

IsWhitespace(b) == b \in {32, 9, 10, 13}

IsQuote(b) == b \in {34, 39}

\* the first position >= i that holds no whitespace, Len(s) + 1 if none
RECURSIVE SkipWhitespace(_, _)
SkipWhitespace(s, i) ==
    IF i > Len(s) THEN Len(s) + 1
    ELSE IF IsWhitespace(s[i]) THEN SkipWhitespace(s, i + 1)
    ELSE i

\* the first position >= i that holds '=' or whitespace, Len(s) + 1 if none
RECURSIVE KeyEnd(_, _)
KeyEnd(s, i) ==
    IF i > Len(s) THEN Len(s) + 1
    ELSE IF s[i] = EqSign \/ IsWhitespace(s[i]) THEN i
    ELSE KeyEnd(s, i + 1)

\* the first position >= i that holds b, 0 if none
RECURSIVE FindByte(_, _, _)
FindByte(s, i, b) ==
    IF i > Len(s) THEN 0
    ELSE IF s[i] = b THEN i
    ELSE FindByte(s, i + 1, b)

RECURSIVE ScanFrom(_, _)
ScanFrom(s, i) ==
    LET k == SkipWhitespace(s, i)
    IN  IF k > Len(s) THEN <<>>
        ELSE LET e == KeyEnd(s, k)
                 q == SkipWhitespace(s, e)
             IN  IF q > Len(s) \/ s[q] # EqSign
                 THEN <<ErrItem("MalformedAttribute", q - 1)>>
                 ELSE LET v == SkipWhitespace(s, q + 1)
                      IN  IF v > Len(s) \/ ~IsQuote(s[v])
                          THEN <<ErrItem("MalformedAttribute", v - 1)>>
                          ELSE LET c == FindByte(s, v + 1, s[v])
                               IN  IF c = 0
                                   THEN <<ErrItem("UnterminatedQuote", v - 1)>>
                                   ELSE <<OkItem(SubSeq(s, k, e - 1), SubSeq(s, v + 1, c - 1))>>
                                        \o ScanFrom(s, c + 1)

\* BytesStart::attributes: Attributes::new(self, self.name_len), collected
Attributes(m, tok) == ScanFrom(TokBytes(m, tok), tok.name_len + 1)

(***************************************************************************)
(* BytesDecl.                                                              *)
(***************************************************************************)
\* BytesDecl::from_start
BytesDeclFromStart(tok) == [kind |-> "Decl", buf |-> tok.buf, name_len |-> tok.name_len]

\* a version() that looks for the key anywhere, as encoding() does
VersionAnywhere(m, tok) ==
    LET items == Attributes(m, tok)
        hit == {i \in 1..Len(items) : items[i].ok /\ items[i].key = KeyVersion}
    IN  IF hit = {} THEN Err(XmlDeclWithoutVersion(FALSE, <<>>))
        ELSE Ok(items[CHOOSE i \in hit : \A j \in hit : i <= j].value)

\* BytesDecl::version: a match on self.element.attributes().next()
BytesDeclVersion(m, tok) ==
    LET items == Attributes(m, tok)
    IN  IF items = <<>> THEN Err(XmlDeclWithoutVersion(FALSE, <<>>))
        ELSE LET a == items[1]
             IN  IF ~a.ok THEN Err(a.err)
                 ELSE IF a.key = KeyVersion THEN Ok(a.value)
                 ELSE IF FromUtf8Ok(a.key) THEN Err(XmlDeclWithoutVersion(TRUE, a.key))
                 ELSE Err(Utf8Error)

\* a loop that skips the error items instead of returning them
RECURSIVE FindAttributeSkipErrors(_, _)
FindAttributeSkipErrors(items, key) ==
    IF items = <<>> THEN None
    ELSE LET a == Head(items)
         IN  IF a.ok /\ a.key = key THEN SomeOk(a.value)
             ELSE FindAttributeSkipErrors(Tail(items), key)

\* the loop of encoding() and standalone():
\* for a in attributes() { Err(e) => return Some(Err(e)),
\*                         Ok(key == wanted) => return Some(Ok(v)), _ => () } None
RECURSIVE FindAttribute(_, _)
FindAttribute(items, key) ==
    IF items = <<>> THEN None
    ELSE LET a == Head(items)
         IN  IF ~a.ok THEN SomeErr(a.err)
             ELSE IF a.key = key THEN SomeOk(a.value)
             ELSE FindAttribute(Tail(items), key)

\* BytesDecl::encoding
BytesDeclEncoding(m, tok) == FindAttribute(Attributes(m, tok), KeyEncoding)

\* BytesDecl::standalone
BytesDeclStandalone(m, tok) == FindAttribute(Attributes(m, tok), KeyStandalone)

(***************************************************************************)
(* Vec<u8> as BytesDecl::new uses it: its bytes, its capacity and the      *)
(* number of times an append had to reallocate.                            *)
(***************************************************************************)
\* Vec::with_capacity(n)
VecWithCapacity(n) == [bytes |-> <<>>, cap |-> n, reallocs |-> 0]

\* Vec::extend_from_slice / Vec::push: grows (amortized) when the capacity is short
VecExtend(v, xs) ==
    LET need == Len(v.bytes) + Len(xs)
    IN  [bytes |-> v.bytes \o xs,
         cap |-> IF need > v.cap THEN Max(Max(2 * v.cap, need), 8) ELSE v.cap,
         reallocs |-> v.reallocs + (IF need > v.cap THEN 1 ELSE 0)]

\* an optional argument: Some(val) or None
Some(val) == [some |-> TRUE, val |-> val]
Absent == [some |-> FALSE, val |-> <<>>]

\* the capacity BytesDecl::new asks for
DeclCapacity(version, encoding, standalone) ==
    LET encoding_attr_len == IF encoding.some THEN 12 + Len(encoding.val) ELSE 0
        standalone_attr_len == IF standalone.some THEN 14 + Len(standalone.val) ELSE 0
    IN  14 + encoding_attr_len + standalone_attr_len

\* a new() that writes standalone before encoding
DeclBufferSwapped(version, encoding, standalone) ==
    LET b0 == VecWithCapacity(DeclCapacity(version, encoding, standalone))
        b1 == VecExtend(b0, XmlVersionOpen)
        b2 == VecExtend(b1, version)
        b3 == IF standalone.some
              THEN VecExtend(VecExtend(b2, StandaloneOpen), standalone.val)
              ELSE b2
        b4 == IF encoding.some
              THEN VecExtend(VecExtend(b3, EncodingOpen), encoding.val)
              ELSE b3
    IN  VecExtend(b4, <<Quote>>)

\* a new() that forgets the closing '"'
DeclBufferNoClose(version, encoding, standalone) ==
    LET b0 == VecWithCapacity(DeclCapacity(version, encoding, standalone))
        b1 == VecExtend(b0, XmlVersionOpen)
        b2 == VecExtend(b1, version)
        b3 == IF encoding.some
              THEN VecExtend(VecExtend(b2, EncodingOpen), encoding.val)
              ELSE b2
    IN  IF standalone.some
        THEN VecExtend(VecExtend(b3, StandaloneOpen), standalone.val)
        ELSE b3

\* the Vec BytesDecl::new builds
DeclBuffer(version, encoding, standalone) ==
    LET b0 == VecWithCapacity(DeclCapacity(version, encoding, standalone))
        b1 == VecExtend(b0, XmlVersionOpen)
        b2 == VecExtend(b1, version)
        b3 == IF encoding.some
              THEN VecExtend(VecExtend(b2, EncodingOpen), encoding.val)
              ELSE b2
        b4 == IF standalone.some
              THEN VecExtend(VecExtend(b3, StandaloneOpen), standalone.val)
              ELSE b3
    IN  VecExtend(b4, <<Quote>>)

\* BytesDecl::new: BytesDecl { element: BytesStart::owned(buf, 3) }, buf the Vec at b
BytesDeclNew(b) == BytesDeclFromStart(BytesStartOwned(b, 3))

(***************************************************************************)
(* Bounds and inputs.                                                      *)
(***************************************************************************)
\* attributes pushed onto one token, at most
MaxAttrs == 2
\* length of an element name, at most
MaxNameLen == 3

\* the caller's source buffers
Sources == {1}

\* an attribute, as Into<Attribute> gives it from (key, value)
Attr(k, v) == [key |-> k, value |-> v]

\* contents of a source buffer or of a Vec handed to owned():
\* "a", "p:q" and "a b=\"c\""
Contents == {<<97>>, <<112, 58, 113>>, <<97, 32, 98, 61, 34, 99, 34>>}

\* name_len arguments tried for a content: in range, and one past the end
NameLens(content) == {0, 1, Len(content), Len(content) + 1}

\* ("", ""), ("k", "v"), ("k", "\"&")
Attrs == {Attr(<<>>, <<>>), Attr(<<107>>, <<118>>), Attr(<<107>>, <<34, 38>>)}

\* the sequences over S of length at most n
SeqsUpTo(S, n) == UNION {[1..k -> S] : k \in 0..n}

(***************************************************************************)
(* State.                                                                  *)
(*   mem   the buffers                                                     *)
(*   toks  the token in each slot                                          *)
(*   hist  per slot, how its token was made: the buffer and name_len it    *)
(*         was constructed with, the attributes pushed since, and the      *)
(*         arguments of BytesDecl::new                                     *)
(*   last  the last call: its name, slot, the Cow state it found, the      *)
(*         allocations it made, and what it returned                       *)
(***************************************************************************)
NoHist ==
    [init |-> <<>>, name_len |-> 0, pushed |-> <<>>, new |-> FALSE,
     version |-> <<>>, encoding |-> Absent, standalone |-> Absent]

Made(content, n) == [NoHist EXCEPT !.init = content, !.name_len = n]

Call(op, t, was, allocs, res) ==
    [op |-> op, tok |-> t, was |-> was, allocs |-> allocs, cap |-> 0,
     reallocs |-> 0, res |-> res]

Slots == DOMAIN toks

\* the state after construction: the sources filled, no token yet
InitWith(slots, contents) ==
    /\ \E c \in contents :
          mem = [b \in 1..(Cardinality(Sources) + Cardinality(slots) + 1) |->
                    IF b \in Sources THEN [live |-> TRUE, bytes |-> c] ELSE FreeBuf]
    /\ toks = [t \in slots |-> NoTok]
    /\ hist = [t \in slots |-> NoHist]
    /\ last = Call("-", 0, "-", 0, NoRes)

(***************************************************************************)
(* Actions: one per operation of the API.                                  *)
(***************************************************************************)
\* BytesStart::borrowed(&source[..], n)
Borrowed(t, s, n) ==
    /\ toks[t].kind = "None"
    /\ toks' = [toks EXCEPT ![t] = BytesStartBorrowed(s, n)]
    /\ hist' = [hist EXCEPT ![t] = Made(mem[s].bytes, n)]
    /\ last' = Call("borrowed", t, "-", 0, NoRes)
    /\ UNCHANGED mem

\* BytesStart::owned(content, n): the caller's Vec moves into the token
Owned(t, content, n) ==
    /\ toks[t].kind = "None"
    /\ LET b == Alloc(mem)
       IN  /\ mem' = [mem EXCEPT ![b] = [live |-> TRUE, bytes |-> content]]
           /\ toks' = [toks EXCEPT ![t] = BytesStartOwned(b, n)]
    /\ hist' = [hist EXCEPT ![t] = Made(content, n)]
    /\ last' = Call("owned", t, "-", 0, NoRes)

\* BytesEnd::borrowed(&source[..])
EndBorrowed(t, s) ==
    /\ toks[t].kind = "None"
    /\ toks' = [toks EXCEPT ![t] = BytesEndBorrowed(s)]
    /\ hist' = [hist EXCEPT ![t] = Made(mem[s].bytes, 0)]
    /\ last' = Call("end_borrowed", t, "-", 0, NoRes)
    /\ UNCHANGED mem

\* BytesEnd::owned(name)
EndOwned(t, name) ==
    /\ toks[t].kind = "None"
    /\ LET b == Alloc(mem)
       IN  /\ mem' = [mem EXCEPT ![b] = [live |-> TRUE, bytes |-> name]]
           /\ toks' = [toks EXCEPT ![t] = BytesEndOwned(b)]
    /\ hist' = [hist EXCEPT ![t] = Made(name, 0)]
    /\ last' = Call("end_owned", t, "-", 0, NoRes)

\* BytesStart::into_owned
IntoOwned(t) ==
    /\ toks[t].kind = "Start"
    /\ LET r == BytesStartIntoOwned(mem, toks[t])
       IN  /\ mem' = r.mem
           /\ toks' = [toks EXCEPT ![t] = r.tok]
           /\ last' = Call("into_owned", t, toks[t].buf.cow, r.allocs, NoRes)
    /\ UNCHANGED hist

\* BytesStart::push_attribute
PushAttribute(t, a) ==
    /\ toks[t].kind = "Start"
    /\ Len(hist[t].pushed) < MaxAttrs
    /\ LET r == BytesStartPushAttribute(mem, toks[t], a)
       IN  /\ mem' = r.mem
           /\ toks' = [toks EXCEPT ![t] = r.tok]
           /\ last' = Call("push_attribute", t, toks[t].buf.cow, r.allocs, NoRes)
    /\ hist' = [hist EXCEPT ![t].pushed = Append(@, a)]

\* BytesStart::extend_attributes
ExtendAttributes(t, as) ==
    /\ toks[t].kind = "Start"
    /\ Len(hist[t].pushed) + Len(as) <= MaxAttrs
    /\ LET r == BytesStartExtendAttributes(mem, toks[t], as)
       IN  /\ mem' = r.mem
           /\ toks' = [toks EXCEPT ![t] = r.tok]
           /\ last' = Call("extend_attributes", t, toks[t].buf.cow, r.allocs, NoRes)
    /\ hist' = [hist EXCEPT ![t].pushed = @ \o as]

\* BytesStart::with_attributes
WithAttributes(t, as) ==
    /\ toks[t].kind = "Start"
    /\ Len(hist[t].pushed) + Len(as) <= MaxAttrs
    /\ LET r == BytesStartWithAttributes(mem, toks[t], as)
       IN  /\ mem' = r.mem
           /\ toks' = [toks EXCEPT ![t] = r.tok]
           /\ last' = Call("with_attributes", t, toks[t].buf.cow, r.allocs, NoRes)
    /\ hist' = [hist EXCEPT ![t].pushed = @ \o as]

\* a token goes out of scope: an Owned buffer is freed, a Borrowed one is the caller's
Drop(t) ==
    /\ toks[t].kind # "None"
    /\ mem' = IF toks[t].buf.cow = "Owned"
              THEN [mem EXCEPT ![toks[t].buf.ptr] = FreeBuf]
              ELSE mem
    /\ toks' = [toks EXCEPT ![t] = NoTok]
    /\ hist' = [hist EXCEPT ![t] = NoHist]
    /\ last' = Call("drop", t, toks[t].buf.cow, 0, NoRes)

\* BytesDecl::new(version, encoding, standalone)
DeclNew(t, version, encoding, standalone) ==
    /\ toks[t].kind = "None"
    /\ LET v == DeclBuffer(version, encoding, standalone)
           b == Alloc(mem)
       IN  /\ mem' = [mem EXCEPT ![b] = [live |-> TRUE, bytes |-> v.bytes]]
           /\ toks' = [toks EXCEPT ![t] = BytesDeclNew(b)]
           /\ hist' = [hist EXCEPT ![t] =
                         [Made(v.bytes, 3) EXCEPT !.new = TRUE, !.version = version,
                              !.encoding = encoding, !.standalone = standalone]]
           /\ last' = [Call("new", t, "-", 1, NoRes) EXCEPT
                          !.cap = DeclCapacity(version, encoding, standalone),
                          !.reallocs = v.reallocs]

\* BytesDecl::from_start
FromStart(t) ==
    /\ toks[t].kind = "Start"
    /\ toks' = [toks EXCEPT ![t] = BytesDeclFromStart(@)]
    /\ last' = Call("from_start", t, toks[t].buf.cow, 0, NoRes)
    /\ UNCHANGED <<mem, hist>>

\* BytesDecl::version
Version(t) ==
    /\ toks[t].kind = "Decl"
    /\ last' = Call("version", t, toks[t].buf.cow, 0, BytesDeclVersion(mem, toks[t]))
    /\ UNCHANGED <<mem, toks, hist>>

\* BytesDecl::encoding
Encoding(t) ==
    /\ toks[t].kind = "Decl"
    /\ last' = Call("encoding", t, toks[t].buf.cow, 0, BytesDeclEncoding(mem, toks[t]))
    /\ UNCHANGED <<mem, toks, hist>>

\* BytesDecl::standalone
Standalone(t) ==
    /\ toks[t].kind = "Decl"
    /\ last' = Call("standalone", t, toks[t].buf.cow, 0, BytesDeclStandalone(mem, toks[t]))
    /\ UNCHANGED <<mem, toks, hist>>

\* BytesStart::local_name
StartLocalName(t) ==
    /\ toks[t].kind = "Start"
    /\ last' = Call("local_name", t, toks[t].buf.cow, 0, BytesStartLocalName(mem, toks[t]))
    /\ UNCHANGED <<mem, toks, hist>>

\* BytesEnd::local_name
EndLocalName(t) ==
    /\ toks[t].kind = "End"
    /\ last' = Call("local_name", t, toks[t].buf.cow, 0, BytesEndLocalName(mem, toks[t]))
    /\ UNCHANGED <<mem, toks, hist>>

(***************************************************************************)
(* Spec: one start tag at a time over one source buffer.                   *)
(***************************************************************************)
Init == InitWith({1}, Contents)

Next ==
    \/ \E t \in Slots, s \in Sources : \E n \in NameLens(mem[s].bytes) : Borrowed(t, s, n)
    \/ \E t \in Slots, c \in Contents : \E n \in NameLens(c) : Owned(t, c, n)
    \/ \E t \in Slots : IntoOwned(t)
    \/ \E t \in Slots, a \in Attrs : PushAttribute(t, a)
    \/ \E t \in Slots, as \in SeqsUpTo(Attrs, MaxAttrs) : ExtendAttributes(t, as)
    \/ \E t \in Slots, as \in SeqsUpTo(Attrs, MaxAttrs) : WithAttributes(t, as)
    \/ \E t \in Slots, e \in {Absent, Some(<<121>>)} : DeclNew(t, <<49>>, e, Absent)
    \/ \E t \in Slots : FromStart(t)
    \/ \E t \in Slots : Drop(t)

Spec == Init /\ [][Next]_vars

(***************************************************************************)
(* SpecShared: two tokens borrowing the same source buffer.                *)
(***************************************************************************)
\* "p:q"
SharedContents == {<<112, 58, 113>>}

\* ("k", "v")
SharedAttrs == {Attr(<<107>>, <<118>>)}

InitShared == InitWith({1, 2}, SharedContents)

NextShared ==
    \/ \E t \in Slots, s \in Sources : \E n \in NameLens(mem[s].bytes) : Borrowed(t, s, n)
    \/ \E t \in Slots : IntoOwned(t)
    \/ \E t \in Slots, a \in SharedAttrs : PushAttribute(t, a)
    \/ \E t \in Slots, as \in SeqsUpTo(SharedAttrs, MaxAttrs) : ExtendAttributes(t, as)
    \/ \E t \in Slots, as \in SeqsUpTo(SharedAttrs, MaxAttrs) : WithAttributes(t, as)
    \/ \E t \in Slots : Drop(t)

SpecShared == InitShared /\ [][NextShared]_vars

(***************************************************************************)
(* SpecDecl: declarations, built by BytesDecl::new or wrapped by           *)
(* from_start around a start tag, and their accessors.                     *)
(***************************************************************************)
\* source buffers: "xml", "xml version='1.0' encoding=\"U\"", "xml version='1.0"
DeclContents ==
    {<<120, 109, 108>>,
     <<120, 109, 108, 32, 118, 101, 114, 115, 105, 111, 110, 61, 39, 49, 46, 48, 39,
       32, 101, 110, 99, 111, 100, 105, 110, 103, 61, 34, 85, 34>>,
     <<120, 109, 108, 32, 118, 101, 114, 115, 105, 111, 110, 61, 39, 49, 46, 48>>}

\* ("version", "1.0"), ("encoding", "UTF-8"), ("standalone", "yes"),
\* ("a b", "v"): no '=' after the key a; ("\xFF", "1"): a key that is no UTF-8;
\* ("\xC3\xA9", "1"): the key e-acute
DeclAttrs ==
    {Attr(KeyVersion, <<49, 46, 48>>), Attr(KeyEncoding, <<85, 84, 70, 45, 56>>),
     Attr(KeyStandalone, <<121, 101, 115>>), Attr(<<97, 32, 98>>, <<118>>),
     Attr(<<255>>, <<49>>), Attr(<<195, 169>>, <<49>>)}

\* "1.0", "", "1\"", "1 ='"
Versions == {<<49, 46, 48>>, <<>>, <<49, 34>>, <<49, 32, 61, 39>>}

\* None, "UTF-8", "", "\"U"
Encodings == {Absent, Some(<<85, 84, 70, 45, 56>>), Some(<<>>), Some(<<34, 85>>)}

\* None, "yes", "n o"
Standalones == {Absent, Some(<<121, 101, 115>>), Some(<<110, 32, 111>>)}

InitDecl == InitWith({1}, DeclContents)

NextDecl ==
    \/ \E t \in Slots, v \in Versions, e \in Encodings, sa \in Standalones :
          DeclNew(t, v, e, sa)
    \/ \E t \in Slots, s \in Sources : Borrowed(t, s, 3)
    \/ \E t \in Slots : Owned(t, <<120, 109, 108>>, 3)
    \/ \E t \in Slots, a \in DeclAttrs : PushAttribute(t, a)
    \/ \E t \in Slots : FromStart(t)
    \/ \E t \in Slots : Version(t)
    \/ \E t \in Slots : Encoding(t)
    \/ \E t \in Slots : Standalone(t)
    \/ \E t \in Slots : Drop(t)

SpecDecl == InitDecl /\ [][NextDecl]_vars

(***************************************************************************)
(* SpecName: a start tag and an end tag over every short name.             *)
(***************************************************************************)
\* the names over 'f', 'b' and ':' of at most MaxNameLen bytes
Names == SeqsUpTo({102, 98, Colon}, MaxNameLen)

\* names of owned end tags: "f:b", "foo:bus:baz"
OwnedNames ==
    {<<102, 58, 98>>, <<102, 111, 111, 58, 98, 117, 115, 58, 98, 97, 122>>}

InitName == InitWith({1, 2}, Names)

NextName ==
    \/ \E s \in Sources : \E n \in NameLens(mem[s].bytes) : Borrowed(1, s, n)
    \/ \E c \in OwnedNames : \E n \in NameLens(c) : Owned(1, c, n)
    \/ \E s \in Sources : EndBorrowed(2, s)
    \/ \E c \in OwnedNames : EndOwned(2, c)
    \/ StartLocalName(1)
    \/ EndLocalName(2)
    \/ \E t \in Slots : Drop(t)

SpecName == InitName /\ [][NextName]_vars

(***************************************************************************)
(* Properties.                                                             *)
(***************************************************************************)
Range(q) == {q[i] : i \in 1..Len(q)}

IsTag(t) == toks[t].kind \in {"Start", "Decl"}

\* " key=\"value\""
AttrBytes(a) == <<Space>> \o a.key \o <<EqSign, Quote>> \o a.value \o <<Quote>>

\* the bytes of a list of attributes, one after the other
RECURSIVE AllAttrBytes(_)
AllAttrBytes(as) ==
    IF as = <<>> THEN <<>> ELSE AttrBytes(Head(as)) \o AllAttrBytes(Tail(as))

\* ln is n when n holds no ':', and else what follows the first ':' of n
IsLocalNameOf(ln, n) ==
    \/ Colon \notin Range(n) /\ ln = n
    \/ \E k \in 0..(Len(n) - 1) :
          /\ Colon \notin Range(SubSeq(n, 1, k))
          /\ n[k + 1] = Colon
          /\ ln = SubSeq(n, k + 2, Len(n))

\* C1: local_name() of a start tag and of an end tag is name() when name()
\* holds no ':', and else the bytes of name() strictly after its first ':';
\* a start tag and an end tag with the same name give the same local name;
\* and that is what a call of local_name returned.
C1_LocalName ==
    /\ \A t \in Slots :
          toks[t].kind = "Start" /\ BytesStartName(mem, toks[t]).tag = "Ok" =>
              /\ BytesStartLocalName(mem, toks[t]).tag = "Ok"
              /\ IsLocalNameOf(BytesStartLocalName(mem, toks[t]).val,
                               BytesStartName(mem, toks[t]).val)
    /\ \A t \in Slots :
          toks[t].kind = "End" =>
              /\ BytesEndLocalName(mem, toks[t]).tag = "Ok"
              /\ IsLocalNameOf(BytesEndLocalName(mem, toks[t]).val,
                               BytesEndName(mem, toks[t]).val)
    /\ \A t, u \in Slots :
          /\ toks[t].kind = "Start" /\ toks[u].kind = "End"
          /\ BytesStartName(mem, toks[t]) = BytesEndName(mem, toks[u])
          => BytesStartLocalName(mem, toks[t]) = BytesEndLocalName(mem, toks[u])
    /\ last.op = "local_name" /\ last.res.tag = "Ok" =>
          IsLocalNameOf(last.res.val,
                        IF toks[last.tok].kind = "Start"
                        THEN BytesStartName(mem, toks[last.tok]).val
                        ELSE BytesEndName(mem, toks[last.tok]).val)

\* a start tag and an end tag of the same name with two ':' in it, and
\* local_name() has just returned the part after the first ':', second ':' kept
C1_Witness ==
    /\ toks[1].kind = "Start" /\ toks[2].kind = "End"
    /\ BytesStartName(mem, toks[1]) = BytesEndName(mem, toks[2])
    /\ Cardinality({i \in 1..Len(TokBytes(mem, toks[2])) :
                       TokBytes(mem, toks[2])[i] = Colon}) = 2
    /\ TokBytes(mem, toks[2])[1] # Colon
    /\ last.op = "local_name" /\ last.tok = 1
    /\ last.res.tag = "Ok" /\ Colon \in Range(last.res.val)
    /\ Len(last.res.val) < Len(TokBytes(mem, toks[2]))

\* the bytes the declaration of (version, encoding, standalone) must have
DeclBytes(version, encoding, standalone) ==
    <<120, 109, 108>> \o AttrBytes(Attr(KeyVersion, version))
    \o (IF encoding.some THEN AttrBytes(Attr(KeyEncoding, encoding.val)) ELSE <<>>)
    \o (IF standalone.some THEN AttrBytes(Attr(KeyStandalone, standalone.val)) ELSE <<>>)

\* the declarations made by BytesDecl::new
NewDecls == {t \in Slots : toks[t].kind = "Decl" /\ hist[t].new}

\* C2: BytesDecl::new(V, E, S) yields an Owned declaration whose bytes are
\* xml version="V", then  encoding="E" iff E is present, then  standalone="S"
\* iff S is present, in that order, the inputs unescaped, and whose name is
\* "xml" with name_len 3.
C2_DeclNewBytes ==
    \A t \in NewDecls :
        /\ toks[t].buf.cow = "Owned"
        /\ TokBytes(mem, toks[t])
              = DeclBytes(hist[t].version, hist[t].encoding, hist[t].standalone)
        /\ toks[t].name_len = 3
        /\ BytesStartName(mem, toks[t]) = Ok(<<120, 109, 108>>)

\* new(V, None, Some(S)) with a '"' in V: the standalone clause follows the
\* version at once and the '"' is written as it is
C2_Witness ==
    \E t \in NewDecls :
        /\ last.op = "new" /\ last.tok = t
        /\ ~hist[t].encoding.some /\ hist[t].standalone.some
        /\ Quote \in Range(hist[t].version)
        /\ Len(TokBytes(mem, toks[t])) = 28 + Len(hist[t].version)
                                            + Len(hist[t].standalone.val)

\* what the claims say version() returns, but for a first key other than "version"
VersionCommon(t, res) ==
    LET items == Attributes(mem, toks[t])
    IN  /\ items = <<>> => res = Err(XmlDeclWithoutVersion(FALSE, <<>>))
        /\ items # <<>> /\ ~items[1].ok => res = Err(items[1].err)
        /\ items # <<>> /\ items[1].ok /\ items[1].key = KeyVersion
              => res = Ok(items[1].value)

\* C3 as stated: version() returns the first attribute's value when its key is
\* "version", XmlDeclWithoutVersion(Some(key)) for every other first key,
\* XmlDeclWithoutVersion(None) without attributes, and a first scan error as it is.
C3_Original ==
    \A t \in Slots : toks[t].kind = "Decl" =>
        LET items == Attributes(mem, toks[t])
            res == BytesDeclVersion(mem, toks[t])
        IN  /\ VersionCommon(t, res)
            /\ items # <<>> /\ items[1].ok /\ items[1].key # KeyVersion
                  => res = Err(XmlDeclWithoutVersion(TRUE, items[1].key))

\* C3, amended: as C3_Original, but a first key other than "version" is
\* reported in XmlDeclWithoutVersion(Some(key)) only when it is UTF-8; when it
\* is not, version() fails with a Utf8 error.  And a call of version()
\* returned just that.
C3_Version ==
    \A t \in Slots : toks[t].kind = "Decl" =>
        LET items == Attributes(mem, toks[t])
            res == BytesDeclVersion(mem, toks[t])
        IN  /\ VersionCommon(t, res)
            /\ items # <<>> /\ items[1].ok /\ items[1].key # KeyVersion
               /\ FromUtf8Ok(items[1].key)
                  => res = Err(XmlDeclWithoutVersion(TRUE, items[1].key))
            /\ items # <<>> /\ items[1].ok /\ ~FromUtf8Ok(items[1].key)
                  => res = Err(Utf8Error)
            /\ last.op = "version" /\ last.tok = t => last.res = res

\* version() has failed on a declaration whose first attribute is encoding
\* and whose second is version
C3_Witness ==
    \E t \in Slots :
        /\ toks[t].kind = "Decl"
        /\ Len(Attributes(mem, toks[t])) = 2
        /\ Attributes(mem, toks[t])[1].key = KeyEncoding
        /\ Attributes(mem, toks[t])[2].key = KeyVersion
        /\ last.op = "version" /\ last.tok = t
        /\ last.res = Err(XmlDeclWithoutVersion(TRUE, KeyEncoding))

\* what the claim says a scan for key returns
FindsKey(items, key, res) ==
    LET hits == {i \in 1..Len(items) : items[i].ok /\ items[i].key = key}
        errs == {i \in 1..Len(items) : ~items[i].ok}
        first(S) == CHOOSE i \in S : \A j \in S : i <= j
    IN  /\ hits # {} /\ (\A e \in errs : first(hits) < e)
              => res = SomeOk(items[first(hits)].value)
        /\ errs # {} /\ (\A h \in hits : first(errs) < h)
              => res = SomeErr(items[first(errs)].err)
        /\ res = None <=> hits = {} /\ errs = {}

\* C4: encoding() and standalone() return Some(Ok(value)) of the first
\* attribute with their key when no scan error comes before it, Some(Err(e))
\* for the first scan error e when it comes before any such attribute, and
\* None exactly when the scan ends with neither; an error after the first
\* match changes nothing.
C4_EncodingStandalone ==
    \A t \in Slots : toks[t].kind = "Decl" =>
        /\ FindsKey(Attributes(mem, toks[t]), KeyEncoding, BytesDeclEncoding(mem, toks[t]))
        /\ FindsKey(Attributes(mem, toks[t]), KeyStandalone,
                    BytesDeclStandalone(mem, toks[t]))
        /\ last.op = "encoding" /\ last.tok = t
              => FindsKey(Attributes(mem, toks[t]), KeyEncoding, last.res)
        /\ last.op = "standalone" /\ last.tok = t
              => FindsKey(Attributes(mem, toks[t]), KeyStandalone, last.res)

\* encoding() has returned the value of an encoding attribute that is not
\* the first attribute and that a scan error follows
C4_Witness ==
    \E t \in Slots :
        /\ toks[t].kind = "Decl"
        /\ Len(Attributes(mem, toks[t])) = 3
        /\ Attributes(mem, toks[t])[1].ok
        /\ Attributes(mem, toks[t])[1].key # KeyEncoding
        /\ Attributes(mem, toks[t])[2].key = KeyEncoding
        /\ ~Attributes(mem, toks[t])[3].ok
        /\ last.op = "encoding" /\ last.tok = t
        /\ last.res = SomeOk(Attributes(mem, toks[t])[2].value)

\* C5: a start tag's buffer is the buffer it was constructed with followed
\* by  key="value" of every attribute pushed since, in call and iteration
\* order, duplicates kept and values unescaped; name_len and name() are
\* those of the construction.
C5_AppendOnly ==
    \A t \in Slots : IsTag(t) =>
        /\ TokBytes(mem, toks[t]) = hist[t].init \o AllAttrBytes(hist[t].pushed)
        /\ toks[t].name_len = hist[t].name_len
        /\ hist[t].name_len <= Len(hist[t].init) =>
              BytesStartName(mem, toks[t]) = Ok(SliceTo(hist[t].init, hist[t].name_len))

\* extend_attributes or with_attributes has pushed the key k a second time,
\* with another value
C5_Witness ==
    \E t \in Slots :
        /\ toks[t].kind = "Start"
        /\ last.op \in {"extend_attributes", "with_attributes"} /\ last.tok = t
        /\ Len(hist[t].pushed) = 2
        /\ hist[t].pushed[1].key = hist[t].pushed[2].key
        /\ hist[t].pushed[1].value # hist[t].pushed[2].value
        /\ Quote \in Range(hist[t].pushed[2].value)

\* C6: no step writes to a source buffer; a call on one token (last.tok)
\* changes neither another token nor the bytes read through it; and an Owned
\* token's buffer is its own: no source buffer, and no other token's.
C6_NoWriteThrough ==
    [][/\ \A s \in Sources : mem'[s] = mem[s]
       /\ \A u \in Slots :
             toks[u].kind # "None" /\ last'.tok # u
             => /\ toks'[u] = toks[u]
                /\ TokBytes(mem', toks'[u]) = TokBytes(mem, toks[u])
       /\ \A t \in Slots :
             toks'[t].kind # "None" /\ toks'[t].buf.cow = "Owned"
             => /\ toks'[t].buf.ptr \notin Sources
                /\ \A u \in Slots \ {t} :
                      toks'[u].kind # "None" => toks'[u].buf.ptr # toks'[t].buf.ptr]_vars

\* two tokens made over the same source: the first has been mutated and owns
\* its copy, the second still borrows the source, which is as it was
C6_Witness ==
    /\ toks[1].kind = "Start" /\ toks[2].kind = "Start"
    /\ toks[1].buf.cow = "Owned" /\ hist[1].pushed # <<>>
    /\ toks[2].buf.cow = "Borrowed" /\ toks[2].buf.ptr \in Sources
    /\ last.op = "push_attribute" /\ last.tok = 1 /\ last.was = "Borrowed"
    /\ hist[1].init = hist[2].init
    /\ TokBytes(mem, toks[2]) = hist[2].init
    /\ TokBytes(mem, toks[1]) # TokBytes(mem, toks[2])

\* C7 as stated: every start tag obtained through the constructors and the
\* token operations has name_len <= length(buffer), so name() is defined.
C7_Original ==
    \A t \in Slots : IsTag(t) =>
        /\ toks[t].name_len <= Len(TokBytes(mem, toks[t]))
        /\ BytesStartName(mem, toks[t]).tag = "Ok"

\* C7, amended: a start tag constructed with name_len <= length(content) has
\* name_len <= length(buffer) after every sequence of operations, and its
\* name() is bytes [0, name_len).
C7_NameLenPreserved ==
    \A t \in Slots : IsTag(t) /\ hist[t].name_len <= Len(hist[t].init) =>
        /\ toks[t].name_len <= Len(TokBytes(mem, toks[t]))
        /\ BytesStartName(mem, toks[t]).tag = "Ok"
        /\ Len(BytesStartName(mem, toks[t]).val) = toks[t].name_len

\* a token borrowed with name_len = length(content), mutated since
C7_Witness ==
    \E t \in Slots :
        /\ toks[t].kind = "Start"
        /\ hist[t].name_len = Len(hist[t].init) /\ hist[t].name_len > 1
        /\ hist[t].pushed # <<>>
        /\ last.op = "push_attribute" /\ last.tok = t /\ last.was = "Borrowed"

\* C8 as stated: into_owned makes exactly one allocation and copy whatever
\* the token's state, and returns an Owned token.
C8_Original ==
    last.op = "into_owned" =>
        /\ last.allocs = 1
        /\ toks[last.tok].buf.cow = "Owned"

\* C8, amended: into_owned makes exactly one allocation and copy when the
\* token is Borrowed and none when it is Owned, and returns an Owned token
\* with the same bytes.
C8_IntoOwned ==
    last.op = "into_owned" =>
        /\ last.allocs = (IF last.was = "Borrowed" THEN 1 ELSE 0)
        /\ toks[last.tok].buf.cow = "Owned"
        /\ toks[last.tok].buf.ptr \notin Sources
        /\ TokBytes(mem, toks[last.tok])
              = hist[last.tok].init \o AllAttrBytes(hist[last.tok].pushed)

\* into_owned has been called on a token that was Owned already
C8_Witness ==
    /\ last.op = "into_owned"
    /\ last.was = "Owned"
    /\ last.allocs = 0
    /\ hist[last.tok].pushed # <<>>

\* C9: the capacity BytesDecl::new asks for is the length of the finished
\* buffer, and no append reallocates.
C9_ExactCapacity ==
    last.op = "new" =>
        /\ last.cap = Len(TokBytes(mem, toks[last.tok]))
        /\ last.reallocs = 0

NoQuote(o) == Quote \notin Range(o.val)

====
